---- MODULE Spec2Model ----
(***************************************************************************)
(* SPC MASTER v2 (src/index.tsx): the control-chart computation of the App  *)
(* component -- parseLine, the processedData and chartStats memos and the   *)
(* capability indices of StatisticsDashboard -- as a state machine whose    *)
(* state is the component's useState cells and its two useMemo caches.      *)
(*                                                                         *)
(* Numbers.  A JavaScript number is modelled as a decimal fixed-point value *)
(* with resolution 1/SCALE held in an integer (9.45 is 9450).  Addition and *)
(* subtraction are exact; every multiplication, division, square root and  *)
(* power rounds its result to the grid, as every IEEE-754 operation rounds  *)
(* to the nearest double.  NaN is modelled where the program's inputs can  *)
(* produce it in control flow (parseFloat of a token, parseInt of the      *)
(* subgroup-size field).  A value that may be absent ('' , null, NaN) is a  *)
(* sequence of length 0 or 1.                                              *)
(***************************************************************************)
EXTENDS Integers, Sequences, FiniteSets, TLC

VARIABLES rawData, chartType, phase, subgroupSize, targetMean, targetSigma,
          lambda, ewmaL, cusumHParam, cusumKParam, usl, lsl,
          processedDataMemo, chartStatsMemo, editsLeft

vars == <<rawData, chartType, phase, subgroupSize, targetMean, targetSigma,
          lambda, ewmaL, cusumHParam, cusumKParam, usl, lsl,
          processedDataMemo, chartStatsMemo, editsLeft>>

----------------------------------------------------------------------------
(* Optional values: '' (an empty number field), null and NaN.              *)

Null == << >>
NaN == << >>
Empty == << >>
Some(v) == << v >>
IsSome(o) == Len(o) = 1
Val(o) == o[1]

----------------------------------------------------------------------------
(* Fixed-point arithmetic.                                                 *)

SCALE == 10 ^ 3

Abs(a) == IF a < 0 THEN -a ELSE a
Max2(a, b) == IF a >= b THEN a ELSE b
Min2(a, b) == IF a <= b THEN a ELSE b

\* a / b for b > 0, rounded to the nearest integer, halves away from zero
RoundDiv(a, b) ==
    IF a >= 0 THEN (2 * a + b) \div (2 * b)
              ELSE -((2 * (-a) + b) \div (2 * b))

Mul(a, b) == RoundDiv(a * b, SCALE)
Div(a, b) == IF b > 0 THEN RoundDiv(a * SCALE, b) ELSE -RoundDiv(a * SCALE, -b)

RECURSIVE ISqrtIn(_, _, _)
ISqrtIn(n, lo, hi) ==
    IF lo >= hi THEN lo
    ELSE LET mid == (lo + hi + 1) \div 2
         IN  IF mid * mid <= n THEN ISqrtIn(n, mid, hi) ELSE ISqrtIn(n, lo, mid - 1)

\* Math.sqrt of a non-negative value
Sqrt(a) == ISqrtIn(a * SCALE, 0, Min2(a * SCALE, 46340))

\* Math.pow(b, e) for an integer exponent e >= 0: e factors b, one rounding each
RECURSIVE PowLoop(_, _)
PowLoop(b, st) ==
    IF st.e = 0 THEN st.acc ELSE PowLoop(b, [e |-> st.e - 1, acc |-> Mul(b, st.acc)])

Pow(b, e) == PowLoop(b, [e |-> e, acc |-> SCALE])

RECURSIVE SeqSum(_)
SeqSum(s) == IF s = << >> THEN 0 ELSE s[1] + SeqSum(Tail(s))

RECURSIVE SeqMax(_)
SeqMax(s) == IF Len(s) = 1 THEN s[1] ELSE Max2(s[1], SeqMax(Tail(s)))

RECURSIVE SeqMin(_)
SeqMin(s) == IF Len(s) = 1 THEN s[1] ELSE Min2(s[1], SeqMin(Tail(s)))

RECURSIVE Flat(_)
Flat(ss) == IF ss = << >> THEN << >> ELSE ss[1] \o Flat(Tail(ss))

\* data.reduce((a, b) => a + b, 0) / (data.length || 1)
calculateMean(data) ==
    RoundDiv(SeqSum(data), IF Len(data) = 0 THEN 1 ELSE Len(data))

\* Math.sqrt(sum of (n - mean)^2 / (data.length - 1 || 1))
calculateStdDev(data) ==
    LET mean == calculateMean(data)
        sq == SeqSum([i \in 1..Len(data) |-> Mul(data[i] - mean, data[i] - mean)])
        den == IF Len(data) - 1 = 0 THEN 1 ELSE Len(data) - 1
    IN  Sqrt(RoundDiv(sq, den))

----------------------------------------------------------------------------
(* Text.  A string is a sequence of one-character strings.                 *)

Digits == <<"0", "1", "2", "3", "4", "5", "6", "7", "8", "9">>
IsDigit(c) == \E i \in 1..10 : Digits[i] = c
DigitVal(c) == (CHOOSE i \in 1..10 : Digits[i] = c) - 1

\* \s of a JavaScript regular expression and the characters trim() removes
IsSpace(c) == c \in {" ", "\t", "\n", "\r"}
\* the class [,\t\s] of parseLine
IsSeparator(c) == c = "," \/ c = "\t" \/ IsSpace(c)

RECURSIVE TrimStart(_)
TrimStart(s) == IF s /= << >> /\ IsSpace(s[1]) THEN TrimStart(Tail(s)) ELSE s

RECURSIVE TrimEnd(_)
TrimEnd(s) ==
    IF s /= << >> /\ IsSpace(s[Len(s)]) THEN TrimEnd(SubSeq(s, 1, Len(s) - 1)) ELSE s

\* String.prototype.trim
Trim(s) == TrimEnd(TrimStart(s))

\* s.split('\n'): the pieces between the newlines, empty ones included
RECURSIVE SplitLines(_)
SplitLines(s) ==
    IF \A i \in 1..Len(s) : s[i] /= "\n" THEN << s >>
    ELSE LET k == CHOOSE i \in 1..Len(s) :
                      s[i] = "\n" /\ \A j \in 1..(i - 1) : s[j] /= "\n"
         IN  << SubSeq(s, 1, k - 1) >> \o SplitLines(SubSeq(s, k + 1, Len(s)))

\* s.split(/[,\t\s]+/): the pieces between maximal runs of separators; a
\* leading or trailing run leaves an empty piece
RECURSIVE SplitRuns(_)
SplitRuns(s) ==
    IF \A i \in 1..Len(s) : ~IsSeparator(s[i]) THEN << s >>
    ELSE LET k == CHOOSE i \in 1..Len(s) :
                      IsSeparator(s[i]) /\ \A j \in 1..(i - 1) : ~IsSeparator(s[j])
             m == CHOOSE i \in k..Len(s) :
                      /\ \A j \in k..i : IsSeparator(s[j])
                      /\ (i = Len(s) \/ ~IsSeparator(s[i + 1]))
         IN  << SubSeq(s, 1, k - 1) >> \o SplitRuns(SubSeq(s, m + 1, Len(s)))

\* number of leading digits of s from position i
RECURSIVE DigitRun(_, _)
DigitRun(s, i) == IF i <= Len(s) /\ IsDigit(s[i]) THEN 1 + DigitRun(s, i + 1) ELSE 0

\* value of the digit string s[i..j] as an integer
RECURSIVE DigitsValue(_, _, _)
DigitsValue(s, i, j) ==
    IF j < i THEN 0 ELSE 10 * DigitsValue(s, i, j - 1) + DigitVal(s[j])

\* parseFloat: skips leading white space, reads the longest prefix that is a
\* decimal literal ([+-] digits [. digits] or [+-] . digits) and ignores
\* whatever follows it; NaN when there is no such prefix
parseFloat(p) ==
    LET s == TrimStart(p)
        signed == s /= << >> /\ s[1] \in {"+", "-"}
        b == IF signed THEN 2 ELSE 1
        ni == DigitRun(s, b)
        dot == b + ni <= Len(s) /\ s[b + ni] = "."
        nf == IF dot THEN DigitRun(s, b + ni + 1) ELSE 0
        ip == DigitsValue(s, b, b + ni - 1)
        fp == RoundDiv(DigitsValue(s, b + ni + 1, b + ni + nf) * SCALE, 10 ^ nf)
        mag == ip * SCALE + fp
    IN  IF ni = 0 /\ nf = 0 THEN NaN
        ELSE Some(IF signed /\ s[1] = "-" THEN -mag ELSE mag)

\* line.trim().split(/[,\t\s]+/).map(p => parseFloat(p)).filter(n => !isNaN(n))
parseLine(line) ==
    LET parts == SplitRuns(Trim(line))
        nums == [i \in 1..Len(parts) |-> parseFloat(parts[i])]
    IN  Flat(nums)

\* rawData.split('\n').filter(l => l.trim() !== '').map(parseLine).flat()
allValuesOf(raw) ==
    LET split == SplitLines(raw)
        lines == SelectSeq(split, LAMBDA l : Trim(l) /= << >>)
    IN  Flat([i \in 1..Len(lines) |-> parseLine(lines[i])])

----------------------------------------------------------------------------
(* The constants table.                                                    *)

STAT_CONSTANTS ==
    [n \in 2..10 |->
        CASE n = 2 -> [A2 |-> 1880, D3 |-> 0, D4 |-> 3267, d2 |-> 1128]
          [] n = 3 -> [A2 |-> 1023, D3 |-> 0, D4 |-> 2574, d2 |-> 1693]
          [] n = 4 -> [A2 |-> 729, D3 |-> 0, D4 |-> 2282, d2 |-> 2059]
          [] n = 5 -> [A2 |-> 577, D3 |-> 0, D4 |-> 2114, d2 |-> 2326]
          [] n = 6 -> [A2 |-> 483, D3 |-> 0, D4 |-> 2004, d2 |-> 2534]
          [] n = 7 -> [A2 |-> 419, D3 |-> 76, D4 |-> 1924, d2 |-> 2704]
          [] n = 8 -> [A2 |-> 373, D3 |-> 136, D4 |-> 1864, d2 |-> 2847]
          [] n = 9 -> [A2 |-> 337, D3 |-> 184, D4 |-> 1816, d2 |-> 2970]
          [] n = 10 -> [A2 |-> 308, D3 |-> 223, D4 |-> 1777, d2 |-> 3078]]

\* slip: the row of subgroups of two, whatever the size
constantsForRowTwo(n) == STAT_CONSTANTS[2]

\* STAT_CONSTANTS[n] || STAT_CONSTANTS[2]
constantsFor(n) ==
    IF n \in DOMAIN STAT_CONSTANTS THEN STAT_CONSTANTS[n] ELSE STAT_CONSTANTS[2]

----------------------------------------------------------------------------
(* processedData: the readings, or their complete subgroups.               *)

isGroupedOf(ct, sg) ==
    ct = "xbar-r" \/ (ct \in {"ewma", "cusum"} /\ IsSome(sg) /\ Val(sg) > 1)

\* slip: sizes below 2 replaced by 5 instead of being raised to 2
groupSizeOfDefaultFive(ct, sg) ==
    IF ct = "xbar-r"
    THEN (IF IsSome(sg) THEN Some(IF Val(sg) < 2 THEN 5 ELSE Val(sg)) ELSE NaN)
    ELSE sg

\* chartType === 'xbar-r' ? Math.max(2, subgroupSize) : subgroupSize
groupSizeOf(ct, sg) ==
    IF ct = "xbar-r" THEN (IF IsSome(sg) THEN Some(Max2(2, Val(sg))) ELSE NaN) ELSE sg

\* allValues.slice(i, i + size), i counted from 0
sliceOf(allValues, i, size) ==
    SubSeq(allValues, i + 1, Min2(i + size, Len(allValues)))

\* slip: the length test dropped, every chunk becomes a subgroup
chunkIsCompleteUnchecked(chunk, size) == Len(chunk) > 0

\* the test a chunk passes to become a subgroup
chunkIsComplete(chunk, size) == Len(chunk) = size

\* for (let i = 0; i < allValues.length; i += size) { ... }
RECURSIVE groupLoop(_, _, _, _)
groupLoop(allValues, size, i, groups) ==
    IF ~(i < Len(allValues)) THEN groups
    ELSE LET chunk == sliceOf(allValues, i, size)
         IN  groupLoop(allValues, size, i + size,
                 IF chunkIsComplete(chunk, size)
                 THEN Append(groups,
                          [id |-> Len(groups) + 1, value |-> calculateMean(chunk),
                           range |-> SeqMax(chunk) - SeqMin(chunk),
                           subgroup |-> chunk, sampleSize |-> size])
                 ELSE groups)

\* with size NaN the first chunk is empty, never complete, and i + NaN ends the loop
groupsOf(allValues, size) ==
    IF IsSome(size) THEN groupLoop(allValues, Val(size), 0, << >>) ELSE << >>

processedDataOf(raw, ct, sg) ==
    LET allValues == allValuesOf(raw)
    IN  IF isGroupedOf(ct, sg) THEN groupsOf(allValues, groupSizeOf(ct, sg))
        ELSE [i \in 1..Len(allValues) |->
                 [id |-> i, value |-> allValues[i], originalValue |-> allValues[i]]]

----------------------------------------------------------------------------
(* chartStats.                                                             *)

valuesOf(pd) == [i \in 1..Len(pd) |-> pd[i].value]

\* d.range || 0
rangesOf(pd) ==
    [i \in 1..Len(pd) |-> IF "range" \in DOMAIN pd[i] THEN pd[i].range ELSE 0]

\* Number(field) of a baseline cell: the empty field converts to 0
Number(field) == IF field = Empty THEN 0 ELSE Val(field)

\* slip: the phase test inverted
usePhase2Inverted(ph, tm, ts) == ph = "phase1" /\ tm /= Empty /\ ts /= Empty

\* slip: the test on the sigma cell left out
usePhase2MeanOnly(ph, tm, ts) == ph = "phase2" /\ tm /= Empty

\* phase === 'phase2' && targetMean !== '' && targetSigma !== ''
usePhase2Of(ph, tm, ts) == ph = "phase2" /\ tm /= Empty /\ ts /= Empty

\* slip: the loop started at the first reading, whose predecessor reads as 0
movingRangesFromFirst(values) ==
    [i \in 1..Len(values) |-> Abs(values[i] - (IF i = 1 THEN 0 ELSE values[i - 1]))]

\* the moving ranges |values[i] - values[i-1]|
movingRanges(values) ==
    [i \in 1..(Len(values) - 1) |-> Abs(values[i + 1] - values[i])]

\* slip: the d2 of subgroups of three
imrSigmaD2Three(meanMR) == Div(meanMR, 1693)

\* meanMR / 1.128
imrSigma(meanMR) == Div(meanMR, 1128)

imrStats(pd, p2, tm, ts) ==
    LET values == valuesOf(pd)
        mean == IF p2 THEN Number(tm) ELSE calculateMean(values)
        mrs == movingRanges(values)
        meanMR == calculateMean(mrs)
        sigma == IF p2 THEN Number(ts) ELSE imrSigma(meanMR)
    IN  [mainChart |-> Some([data |-> [i \in 1..Len(pd) |-> [x |-> pd[i].id, y |-> pd[i].value]],
                             ucl |-> mean + 3 * sigma, lcl |-> mean - 3 * sigma, cl |-> mean]),
         secondChart |-> Some([data |-> [i \in 1..Len(mrs) |-> [x |-> i + 1, y |-> mrs[i]]],
                               ucl |-> Mul(3267, meanMR), lcl |-> 0, cl |-> meanMR]),
         sigma |-> sigma, mean |-> mean]

\* processedData[0]?.sampleSize || 2
sampleSizeOf(pd) ==
    IF Len(pd) > 0 /\ "sampleSize" \in DOMAIN pd[1] /\ pd[1].sampleSize /= 0
    THEN pd[1].sampleSize ELSE 2

\* sigma of the X-bar-R branch: meanRange / constants.d2
xbarSigma(meanRange, constants) == Div(meanRange, constants.d2)

xbarStats(pd, p2, tm, ts) ==
    LET values == valuesOf(pd)
        ranges == rangesOf(pd)
        meanVal == IF p2 THEN Number(tm) ELSE calculateMean(values)
        meanRange == calculateMean(ranges)
        n == sampleSizeOf(pd)
        constants == constantsFor(n)
        sigma == xbarSigma(meanRange, constants)
    IN  [mainChart |-> Some([data |-> [i \in 1..Len(pd) |-> [x |-> pd[i].id, y |-> pd[i].value]],
                             ucl |-> meanVal + Mul(constants.A2, meanRange),
                             lcl |-> meanVal - Mul(constants.A2, meanRange), cl |-> meanVal]),
         secondChart |-> Some([data |-> [i \in 1..Len(ranges) |-> [x |-> i, y |-> ranges[i]]],
                               ucl |-> Mul(constants.D4, meanRange),
                               lcl |-> Mul(constants.D3, meanRange), cl |-> meanRange]),
         sigma |-> sigma, mean |-> meanVal]

\* slip: z seeded with 0 instead of the baseline mean
ewmaSeedZero(mean) == 0

\* let z = mean
ewmaSeed(mean) == mean

\* z = lambda * x + (1 - lambda) * z
ewmaStep(lam, x, z) == Mul(lam, x) + Mul(SCALE - lam, z)

\* slip: the power added to 1 instead of subtracted from it
ewmaTermPlus(lam, i) ==
    Sqrt(Mul(Div(lam, 2 * SCALE - lam), SCALE + Pow(SCALE - lam, 2 * (i + 1))))

\* Math.sqrt((lambda / (2 - lambda)) * (1 - Math.pow(1 - lambda, 2 * (i + 1)))), i from 0
ewmaTerm(lam, i) ==
    Sqrt(Mul(Div(lam, 2 * SCALE - lam), SCALE - Pow(SCALE - lam, 2 * (i + 1))))

\* values.forEach((x, i) => { ... }) of the EWMA branch; st holds the loop
\* index i and the values of z, ewmaData, uclTime and lclTime before pass i
RECURSIVE ewmaLoop(_, _, _, _, _, _)
ewmaLoop(values, lam, L, mean, sigma, st) ==
    IF st.i >= Len(values) THEN st
    ELSE LET z == ewmaStep(lam, values[st.i + 1], st.z)
             term == ewmaTerm(lam, st.i)
         IN  ewmaLoop(values, lam, L, mean, sigma,
                 [i |-> st.i + 1, z |-> z,
                  ewmaData |-> Append(st.ewmaData, [x |-> st.i + 1, y |-> z]),
                  uclTime |-> Append(st.uclTime, mean + Mul(Mul(L, sigma), term)),
                  lclTime |-> Append(st.lclTime, mean - Mul(Mul(L, sigma), term))])

ewmaStats(pd, p2, tm, ts, lam, L) ==
    LET values == valuesOf(pd)
        mean == IF p2 THEN Number(tm) ELSE calculateMean(values)
        sigma == IF p2 THEN Number(ts) ELSE calculateStdDev(values)
        st == ewmaLoop(values, lam, L, mean, sigma,
                  [i |-> 0, z |-> ewmaSeed(mean), ewmaData |-> << >>,
                   uclTime |-> << >>, lclTime |-> << >>])
    IN  [mainChart |-> Some([data |-> st.ewmaData, ucl |-> st.uclTime,
                             lcl |-> st.lclTime, cl |-> mean]),
         secondChart |-> Null, sigma |-> sigma, mean |-> mean]

\* slip: the upper sum without its clamp at 0
cusumPlusUnclamped(x, mean, K, cp) == x - (mean + K) + cp

\* cp = Math.max(0, x - (mean + K) + cp)
cusumPlus(x, mean, K, cp) == Max2(0, x - (mean + K) + cp)

\* cm = Math.max(0, (mean - K) - x + cm)
cusumMinus(x, mean, K, cm) == Max2(0, (mean - K) - x + cm)

\* let cp = 0, cm = 0
cusumStart == [i |-> 0, cp |-> 0, cm |-> 0, cpData |-> << >>, cmData |-> << >>]

\* values.forEach((x, i) => { ... }) of the CUSUM branch; st holds the loop
\* index i and the values of cp, cm, cpData and cmData before pass i
RECURSIVE cusumLoop(_, _, _, _)
cusumLoop(values, mean, K, st) ==
    IF st.i >= Len(values) THEN st
    ELSE LET cp == cusumPlus(values[st.i + 1], mean, K, st.cp)
             cm == cusumMinus(values[st.i + 1], mean, K, st.cm)
         IN  cusumLoop(values, mean, K,
                 [i |-> st.i + 1, cp |-> cp, cm |-> cm,
                  cpData |-> Append(st.cpData, [x |-> st.i + 1, y |-> cp]),
                  cmData |-> Append(st.cmData, [x |-> st.i + 1, y |-> cm])])

\* H = cusumHParam * sigma
cusumH(h, sigma) == Mul(h, sigma)

cusumStats(pd, p2, tm, ts, h, k) ==
    LET values == valuesOf(pd)
        mean == IF p2 THEN Number(tm) ELSE calculateMean(values)
        sigma == IF p2 THEN Number(ts) ELSE calculateStdDev(values)
        K == Mul(k, sigma)
        H == cusumH(h, sigma)
        st == cusumLoop(values, mean, K, cusumStart)
        obs == [i \in 1..Len(values) |-> [x |-> i, y |-> values[i]]]
    IN  [mainChart |-> Some([data |-> st.cpData, ucl |-> H, lcl |-> 0, cl |-> 0,
                             secondarySeries |-> obs, target |-> mean]),
         secondChart |-> Some([data |-> st.cmData, ucl |-> H, lcl |-> 0, cl |-> 0,
                               secondarySeries |-> obs, target |-> mean]),
         sigma |-> sigma, mean |-> mean]

\* slip: the guard on the empty series left out
seriesIsEmptyNever(pd) == FALSE

\* processedData.length === 0
seriesIsEmpty(pd) == Len(pd) = 0

\* the value the chartStats memo computes
chartStatsOf(pd, ct, ph, tm, ts, lam, L, h, k) ==
    IF seriesIsEmpty(pd)
    THEN [ucl |-> 0, lcl |-> 0, cl |-> 0, sigma |-> 0, mean |-> 0,
          mainChart |-> Null, secondChart |-> Null]
    ELSE LET p2 == usePhase2Of(ph, tm, ts)
         IN  CASE ct = "imr" -> imrStats(pd, p2, tm, ts)
               [] ct = "xbar-r" -> xbarStats(pd, p2, tm, ts)
               [] ct = "ewma" -> ewmaStats(pd, p2, tm, ts, lam, L)
               [] ct = "cusum" -> cusumStats(pd, p2, tm, ts, h, k)

----------------------------------------------------------------------------
(* StatisticsDashboard: the capability indices.                            *)

\* slip: a truthiness test, which also discards a limit of 0
limitOfTruthy(field) == IF field = Empty \/ field = Some(0) THEN Null ELSE field

\* usl === '' ? undefined : usl
limitOf(field) == IF field = Empty THEN Null ELSE field

\* slip: only a zero sigma is refused
sigmaIsUsableNonZero(sigma) == sigma /= 0

\* if (sigma > 0)
sigmaIsUsable(sigma) == sigma > 0

\* cpk from cpu and cpl
cpkOf(cpu, cpl) ==
    IF cpu /= Null /\ cpl /= Null THEN Some(Min2(Val(cpu), Val(cpl)))
    ELSE IF cpu /= Null THEN cpu
    ELSE IF cpl /= Null THEN cpl
    ELSE Null

\* cp, cpk and the block-local cpu, cpl; divisions lists the quotients evaluated
capabilityOf(stats, uslField, lslField) ==
    LET mean == stats.mean
        sigma == stats.sigma
        u == limitOf(uslField)
        l == limitOf(lslField)
    IN  IF sigmaIsUsable(sigma)
        THEN LET cp == IF u /= Null /\ l /= Null
                       THEN Some(Div(Val(u) - Val(l), 6 * sigma)) ELSE Null
                 cpu == IF u /= Null THEN Some(Div(Val(u) - mean, 3 * sigma)) ELSE Null
                 cpl == IF l /= Null THEN Some(Div(mean - Val(l), 3 * sigma)) ELSE Null
             IN  [cp |-> cp, cpk |-> cpkOf(cpu, cpl), cpu |-> cpu, cpl |-> cpl,
                  divisions |-> {d \in {"cp", "cpu", "cpl"} :
                                    \/ d = "cp" /\ cp /= Null
                                    \/ d = "cpu" /\ cpu /= Null
                                    \/ d = "cpl" /\ cpl /= Null}]
        ELSE [cp |-> Null, cpk |-> Null, cpu |-> Null, cpl |-> Null, divisions |-> {}]

----------------------------------------------------------------------------
(* Inputs.                                                                 *)

\* input changes followed from the constructed component
MaxEdits == 3
\* input changes followed from a component constructed with a phase-2 baseline
MaxBaselineEdits == 2
\* largest in-table subgroup size typed into the subgroup-size field
MaxSubgroupSize == 3

DefaultRawData ==
    << "9", ".", "4", "5", "\n",
       "7", ".", "9", "9", "\n",
       "9", ".", "2", "9", "\n",
       "1", "1", ".", "6", "6", "\n",
       "1", "2", ".", "1", "6", "\n",
       "1", "0", ".", "1", "8", "\n",
       "8", ".", "0", "4", "\n",
       "1", "1", ".", "4", "6", "\n",
       "9", ".", "2", "0", "\n",
       "1", "0", ".", "3", "4", "\n",
       "9", ".", "0", "3", "\n",
       "1", "1", ".", "4", "7", "\n",
       "1", "0", ".", "5", "1", "\n",
       "9", ".", "4", "0", "\n",
       "1", "0", ".", "0", "8", "\n",
       "9", ".", "3", "7", "\n",
       "1", "0", ".", "6", "2", "\n",
       "1", "0", ".", "3", "1", "\n",
       "8", ".", "5", "2", "\n",
       "1", "0", ".", "8", "4", "\n",
       "1", "0", ".", "9", "0", "\n",
       "9", ".", "3", "3", "\n",
       "1", "2", ".", "2", "9", "\n",
       "1", "1", ".", "5", "0", "\n",
       "1", "0", ".", "6", "0", "\n",
       "1", "1", ".", "0", "8", "\n",
       "1", "0", ".", "3", "8", "\n",
       "1", "1", ".", "6", "2", "\n",
       "1", "1", ".", "3", "1", "\n",
       "1", "0", ".", "5", "2" >>

\* texts typed or pasted into the data field
RawTexts ==
    { DefaultRawData,
      << >>,
      << "a", ",", " ", "x" >>,
      << "\n", " ", "\n" >>,
      << "5" >>,
      << "2", "\n", "2", "\n", "2" >>,
      << "1", ",", "2", ",", "3", ",", "4", ",", "5" >>,
      << "1", ",", "3", "\n", "\n", " ", "2", " ", " ", "4", "\t", "x", "\n" >> }

ChartTypes == {"imr", "xbar-r", "ewma", "cusum"}
Phases == {"phase1", "phase2"}
\* parseInt of the subgroup-size field: an integer, or NaN when it is cleared
SubgroupSizes == {NaN} \cup {Some(n) : n \in 0..MaxSubgroupSize} \cup {Some(11)}
\* <<targetMean, targetSigma>>: the phase-2 baseline cells.  No handler of the
\* component calls setTargetMean or setTargetSigma, so a baseline is in place
\* from construction or not at all
Baselines ==
    { <<Empty, Empty>>, <<Some(10000), Some(1000)>>, <<Some(10000), Some(0)>>,
      <<Some(10000), Some(-1000)>>, <<Some(10000), Empty>>, <<Empty, Some(1000)>> }
Lambdas == {100, 500, 1000}
EwmaLs == {2700, 3000}
CusumHs == {5000, 0, -1000}
CusumKs == {500, 0}
Usls == {Empty, Some(0), Some(13000)}
Lsls == {Empty, Some(0), Some(7000)}

----------------------------------------------------------------------------
(* The component.                                                          *)

\* useMemo(compute, deps): the cached value unless a dependency changed
useMemo(memo, deps, fresh) ==
    IF memo.deps = deps THEN memo ELSE [deps |-> deps, value |-> fresh]

processedData == processedDataMemo.value
chartStats == chartStatsMemo.value
capability == capabilityOf(chartStats, usl, lsl)

\* dependency lists of the two memos
processedDataDeps(raw, ct, sg) == <<raw, ct, sg>>

\* slip: lambda missing from the dependency list
chartStatsDepsNoLambda(pd, ct, ph, tm, ts, sg, lam, L, h, k) ==
    <<pd, ct, ph, tm, ts, sg, L, h, k>>

chartStatsDeps(pd, ct, ph, tm, ts, sg, lam, L, h, k) ==
    <<pd, ct, ph, tm, ts, sg, lam, L, h, k>>

\* a render of App after a state change: both memos are brought up to date
Render ==
    /\ processedDataMemo' =
           useMemo(processedDataMemo,
                   processedDataDeps(rawData', chartType', subgroupSize'),
                   processedDataOf(rawData', chartType', subgroupSize'))
    /\ chartStatsMemo' =
           useMemo(chartStatsMemo,
                   chartStatsDeps(processedDataMemo'.value, chartType', phase',
                                  targetMean', targetSigma', subgroupSize', lambda',
                                  ewmaL', cusumHParam', cusumKParam'),
                   chartStatsOf(processedDataMemo'.value, chartType', phase',
                                targetMean', targetSigma', lambda', ewmaL',
                                cusumHParam', cusumKParam'))

\* the first render fills both memos
FirstRender ==
    /\ processedDataMemo =
           [deps |-> processedDataDeps(rawData, chartType, subgroupSize),
            value |-> processedDataOf(rawData, chartType, subgroupSize)]
    /\ chartStatsMemo =
           [deps |-> chartStatsDeps(processedDataMemo.value, chartType, phase,
                                    targetMean, targetSigma, subgroupSize, lambda,
                                    ewmaL, cusumHParam, cusumKParam),
            value |-> chartStatsOf(processedDataMemo.value, chartType, phase,
                                   targetMean, targetSigma, lambda, ewmaL,
                                   cusumHParam, cusumKParam)]

\* the useState initial values other than the phase-2 baseline
InitialInputs ==
    /\ rawData = DefaultRawData
    /\ chartType = "imr"
    /\ phase = "phase1"
    /\ subgroupSize = Some(1)
    /\ lambda = 100
    /\ ewmaL = 2700
    /\ cusumHParam = 5000
    /\ cusumKParam = 500
    /\ usl = Empty
    /\ lsl = Empty

\* the component as constructed
Init ==
    /\ InitialInputs
    /\ targetMean = Empty
    /\ targetSigma = Empty
    /\ FirstRender
    /\ editsLeft = MaxEdits

\* the component constructed with a phase-2 baseline in its targetMean and
\* targetSigma cells
InitBaseline ==
    /\ InitialInputs
    /\ \E b \in Baselines : targetMean = b[1] /\ targetSigma = b[2]
    /\ FirstRender
    /\ editsLeft = MaxBaselineEdits

Edit == editsLeft > 0 /\ editsLeft' = editsLeft - 1

setRawData ==
    \E v \in RawTexts :
        /\ Edit /\ v /= rawData /\ rawData' = v
        /\ UNCHANGED <<chartType, phase, subgroupSize, targetMean, targetSigma, lambda,
                       ewmaL, cusumHParam, cusumKParam, usl, lsl>>
        /\ Render

setChartType ==
    \E v \in ChartTypes :
        /\ Edit /\ v /= chartType /\ chartType' = v
        /\ UNCHANGED <<rawData, phase, subgroupSize, targetMean, targetSigma, lambda,
                       ewmaL, cusumHParam, cusumKParam, usl, lsl>>
        /\ Render

setPhase ==
    \E v \in Phases :
        /\ Edit /\ v /= phase /\ phase' = v
        /\ UNCHANGED <<rawData, chartType, subgroupSize, targetMean, targetSigma, lambda,
                       ewmaL, cusumHParam, cusumKParam, usl, lsl>>
        /\ Render

setSubgroupSize ==
    \E v \in SubgroupSizes :
        /\ Edit /\ v /= subgroupSize /\ subgroupSize' = v
        /\ UNCHANGED <<rawData, chartType, phase, targetMean, targetSigma, lambda,
                       ewmaL, cusumHParam, cusumKParam, usl, lsl>>
        /\ Render

setLambda ==
    \E v \in Lambdas :
        /\ Edit /\ v /= lambda /\ lambda' = v
        /\ UNCHANGED <<rawData, chartType, phase, subgroupSize, targetMean, targetSigma,
                       ewmaL, cusumHParam, cusumKParam, usl, lsl>>
        /\ Render

setEwmaL ==
    \E v \in EwmaLs :
        /\ Edit /\ v /= ewmaL /\ ewmaL' = v
        /\ UNCHANGED <<rawData, chartType, phase, subgroupSize, targetMean, targetSigma,
                       lambda, cusumHParam, cusumKParam, usl, lsl>>
        /\ Render

setCusumHParam ==
    \E v \in CusumHs :
        /\ Edit /\ v /= cusumHParam /\ cusumHParam' = v
        /\ UNCHANGED <<rawData, chartType, phase, subgroupSize, targetMean, targetSigma,
                       lambda, ewmaL, cusumKParam, usl, lsl>>
        /\ Render

setCusumKParam ==
    \E v \in CusumKs :
        /\ Edit /\ v /= cusumKParam /\ cusumKParam' = v
        /\ UNCHANGED <<rawData, chartType, phase, subgroupSize, targetMean, targetSigma,
                       lambda, ewmaL, cusumHParam, usl, lsl>>
        /\ Render

setUsl ==
    \E v \in Usls :
        /\ Edit /\ v /= usl /\ usl' = v
        /\ UNCHANGED <<rawData, chartType, phase, subgroupSize, targetMean, targetSigma,
                       lambda, ewmaL, cusumHParam, cusumKParam, lsl>>
        /\ Render

setLsl ==
    \E v \in Lsls :
        /\ Edit /\ v /= lsl /\ lsl' = v
        /\ UNCHANGED <<rawData, chartType, phase, subgroupSize, targetMean, targetSigma,
                       lambda, ewmaL, cusumHParam, cusumKParam, usl>>
        /\ Render

Next ==
    \/ setRawData \/ setChartType \/ setPhase \/ setSubgroupSize
    \/ setLambda \/ setEwmaL
    \/ setCusumHParam \/ setCusumKParam \/ setUsl \/ setLsl

Spec == Init /\ [][Next]_vars

SpecBaseline == InitBaseline /\ [][Next]_vars

\* longest text typed into the data field after it has been cleared
MaxTextLen == 3

\* the keys pressed in the data field
TypedCharacters == {"1", "2", "a", ".", "-", ",", " ", "\n"}

\* the data field emptied: onChange with the empty text
clearData ==
    /\ rawData /= << >> /\ rawData' = << >>
    /\ UNCHANGED <<chartType, phase, subgroupSize, targetMean, targetSigma, lambda,
                   ewmaL, cusumHParam, cusumKParam, usl, lsl, editsLeft>>
    /\ Render

\* a key pressed at the end of the data field: onChange with the longer text
typeCharacter ==
    \E c \in TypedCharacters :
        /\ Len(rawData) < MaxTextLen /\ rawData' = Append(rawData, c)
        /\ UNCHANGED <<chartType, phase, subgroupSize, targetMean, targetSigma, lambda,
                       ewmaL, cusumHParam, cusumKParam, usl, lsl, editsLeft>>
        /\ Render

NextTyping == clearData \/ typeCharacter

\* the constructed component with its data field retyped key by key
SpecTyping == Init /\ [][NextTyping]_vars

----------------------------------------------------------------------------
(* Properties.                                                             *)

allValues == allValuesOf(rawData)
isGrouped == isGroupedOf(chartType, subgroupSize)
groupSize == groupSizeOf(chartType, subgroupSize)
usePhase2 == usePhase2Of(phase, targetMean, targetSigma)
values == valuesOf(processedData)
hasCharts == chartStats.mainChart /= Null
mainChart == Val(chartStats.mainChart)
secondChart == Val(chartStats.secondChart)

\* the n readings of the j-th window of size n
Window(j, n) == SubSeq(allValues, (j - 1) * n + 1, j * n)

\* C1: grouping N readings with subgroup size n >= 2 gives exactly N \div n
\* subgroups, the j-th holding readings (j-1)*n+1 .. j*n in order with their
\* mean and range; the chart has one point per subgroup and its phase-1 centre
\* is the mean of the subgroup means, so a trailing remainder appears nowhere.
C1_CompleteSubgroupsOnly ==
    (isGrouped /\ IsSome(groupSize)) =>
        LET n == Val(groupSize)
            k == Len(allValues) \div n
        IN  /\ n >= 2
            /\ Len(processedData) = k
            /\ \A j \in 1..k :
                   /\ processedData[j].id = j
                   /\ processedData[j].subgroup = Window(j, n)
                   /\ processedData[j].value = calculateMean(Window(j, n))
                   /\ processedData[j].range = SeqMax(Window(j, n)) - SeqMin(Window(j, n))
            /\ hasCharts <=> k > 0
            /\ hasCharts =>
                   /\ Len(mainChart.data) = k
                   /\ ~usePhase2 =>
                          chartStats.mean =
                              calculateMean([j \in 1..k |-> calculateMean(Window(j, n))])
                   /\ chartType = "xbar-r" =>
                          /\ Len(secondChart.data) = k
                          /\ secondChart.cl =
                                 calculateMean([j \in 1..k |->
                                     SeqMax(Window(j, n)) - SeqMin(Window(j, n))])

\* C1 witness: a grouped series with at least one subgroup and a remainder
C1_Witness ==
    /\ isGrouped /\ IsSome(groupSize)
    /\ Len(allValues) % Val(groupSize) /= 0
    /\ Len(processedData) >= 1

\* the upper and lower CUSUM sums before reading i
CplusBefore(i) == IF i = 1 THEN 0 ELSE mainChart.data[i - 1].y
CminusBefore(i) == IF i = 1 THEN 0 ELSE secondChart.data[i - 1].y

\* the slack K of the exposed CUSUM result
cusumK == Mul(cusumKParam, chartStats.sigma)

\* C2: both CUSUM sums start at 0 and after every reading i
\* Cplus_i = max(0, x_i - (mean+K) + Cplus_{i-1}) and
\* Cminus_i = max(0, (mean-K) - x_i + Cminus_{i-1}); both are never negative and
\* Cplus_i never exceeds max(0, Cplus_{i-1} + (x_i - (mean+K))).
C2_CusumRecurrence ==
    (chartType = "cusum" /\ hasCharts) =>
        /\ Len(mainChart.data) = Len(values)
        /\ Len(secondChart.data) = Len(values)
        /\ \A i \in 1..Len(values) :
               LET up == values[i] - (chartStats.mean + cusumK) + CplusBefore(i)
                   down == (chartStats.mean - cusumK) - values[i] + CminusBefore(i)
                   Cplus == mainChart.data[i].y
                   Cminus == secondChart.data[i].y
               IN  /\ mainChart.data[i].x = i /\ secondChart.data[i].x = i
                   /\ Cplus = (IF up > 0 THEN up ELSE 0)
                   /\ Cminus = (IF down > 0 THEN down ELSE 0)
                   /\ Cplus >= 0 /\ Cminus >= 0
                   /\ Cplus <= Max2(0, CplusBefore(i) + (values[i] - (chartStats.mean + cusumK)))

\* C2 witness: a CUSUM run in which the upper sum rises above 0 and is later
\* clamped back to 0
C2_Witness ==
    /\ chartType = "cusum" /\ hasCharts
    /\ \E i \in 2..Len(values) :
           /\ CplusBefore(i) > 0
           /\ values[i] - (chartStats.mean + cusumK) + CplusBefore(i) < 0
           /\ mainChart.data[i].y = 0

\* the EWMA statistic before reading i: z_0 is the baseline mean
ZBefore(i) == IF i = 1 THEN chartStats.mean ELSE mainChart.data[i - 1].y

\* C3: the EWMA statistic is seeded with the baseline mean (the supplied mean
\* in phase 2) and z_i = lambda*x_i + (1-lambda)*z_{i-1} for i = 1..N; exactly
\* N points are emitted, the i-th being z_i, and z_0 is not emitted.
C3_EwmaRecurrence ==
    (chartType = "ewma" /\ hasCharts) =>
        /\ chartStats.mean = (IF usePhase2 THEN Val(targetMean) ELSE calculateMean(values))
        /\ Len(mainChart.data) = Len(values)
        /\ \A i \in 1..Len(values) :
               /\ mainChart.data[i].x = i
               /\ mainChart.data[i].y =
                      Mul(lambda, values[i]) + Mul(SCALE - lambda, ZBefore(i))

\* C3 witness: a phase-2 EWMA whose supplied mean is not the data's mean and
\* whose first point differs from the seed
C3_Witness ==
    /\ chartType = "ewma" /\ hasCharts /\ usePhase2
    /\ Val(targetMean) /= calculateMean(values)
    /\ Len(values) >= 2
    /\ mainChart.data[1].y /= chartStats.mean

ranges == rangesOf(processedData)
meanRange == calculateMean(ranges)

\* phase 2 is selected and both baseline cells are filled
baselineSupplied == phase = "phase2" /\ targetMean /= Empty /\ targetSigma /= Empty

\* C4 as stated, for a computation that produced a chart: in phase 2 with a
\* supplied baseline the reported mean and sigma are the supplied ones, for
\* every chart type.
C4_SuppliedBaselineReported ==
    (baselineSupplied /\ hasCharts) =>
        /\ chartStats.mean = Val(targetMean)
        /\ chartStats.sigma = Val(targetSigma)

\* C4 amended: in phase 2 with a supplied baseline and a non-empty processed
\* series the reported mean is the supplied mean for every chart type; the
\* reported sigma is the supplied sigma for IMR, EWMA and CUSUM, and for
\* X-bar-R it stays meanRange / d2, estimated from the subgroup ranges.  With an
\* empty processed series the result is the degenerate mean 0, sigma 0.
C4_SuppliedBaselineAmended ==
    baselineSupplied =>
        /\ Len(processedData) > 0 =>
               /\ chartStats.mean = Val(targetMean)
               /\ chartType \in {"imr", "ewma", "cusum"} =>
                      chartStats.sigma = Val(targetSigma)
               /\ chartType = "xbar-r" =>
                      chartStats.sigma =
                          Div(meanRange, constantsFor(sampleSizeOf(processedData)).d2)
        /\ Len(processedData) = 0 => chartStats.mean = 0 /\ chartStats.sigma = 0

\* C4 witness: phase 2 with a supplied baseline on an X-bar-R chart whose
\* reported mean is the supplied one and differs from the grand mean of the data
C4_Witness ==
    /\ baselineSupplied /\ chartType = "xbar-r" /\ Len(processedData) > 0
    /\ chartStats.mean = Val(targetMean)
    /\ chartStats.mean /= calculateMean(values)
    /\ chartStats.sigma /= Val(targetSigma)

\* C5: whenever the baseline sigma is <= 0 every capability index (cp, cpk,
\* cpu, cpl) is null whichever spec limits are present, and no quotient by
\* sigma is evaluated.
C5_NoCapabilityWithoutSigma ==
    chartStats.sigma <= 0 =>
        /\ capability.cp = Null /\ capability.cpk = Null
        /\ capability.cpu = Null /\ capability.cpl = Null
        /\ capability.divisions = {}

\* C5 witness: identical readings give sigma = 0 on a non-empty series while a
\* spec limit is present
C5_Witness ==
    /\ hasCharts /\ chartStats.sigma = 0
    /\ usl /= Empty
    /\ capability.cpk = Null

\* the one-sided indices of the exposed baseline
cpuExpected == Div(Val(usl) - chartStats.mean, 3 * chartStats.sigma)
cplExpected == Div(chartStats.mean - Val(lsl), 3 * chartStats.sigma)

\* C6: for sigma > 0, cpk is min(cpu, cpl) when both limits are present, the
\* one available index when exactly one is, and null when neither is; cp is
\* non-null exactly when both are present.  A limit of 0 counts as present.
C6_CpkSelection ==
    chartStats.sigma > 0 =>
        /\ (usl /= Empty /\ lsl /= Empty) =>
               /\ capability.cpk = Some(Min2(cpuExpected, cplExpected))
               /\ capability.cp = Some(Div(Val(usl) - Val(lsl), 6 * chartStats.sigma))
        /\ (usl /= Empty /\ lsl = Empty) => capability.cpk = Some(cpuExpected)
        /\ (usl = Empty /\ lsl /= Empty) => capability.cpk = Some(cplExpected)
        /\ (usl = Empty /\ lsl = Empty) => capability.cpk = Null
        /\ (capability.cp /= Null) <=> (usl /= Empty /\ lsl /= Empty)

\* C6 witness: sigma > 0 with a lower limit of 0 and an upper limit, cpk being
\* the smaller of two different one-sided indices
C6_Witness ==
    /\ chartStats.sigma > 0
    /\ lsl = Some(0) /\ usl /= Empty
    /\ cpuExpected /= cplExpected
    /\ capability.cpk = Some(Min2(cpuExpected, cplExpected))
    /\ capability.cp /= Null

\* the result of the X-bar-R branch is the one the n = 2 row produces
usesRowTwo ==
    LET row == STAT_CONSTANTS[2]
    IN  /\ chartStats.sigma = Div(meanRange, row.d2)
        /\ mainChart.ucl = chartStats.mean + Mul(row.A2, meanRange)
        /\ mainChart.lcl = chartStats.mean - Mul(row.A2, meanRange)
        /\ secondChart.ucl = Mul(row.D4, meanRange)
        /\ secondChart.lcl = Mul(row.D3, meanRange)

\* the result carries nothing besides the charts and the baseline
resultIsUnflagged ==
    /\ DOMAIN chartStats = {"mainChart", "secondChart", "sigma", "mean"}
    /\ DOMAIN mainChart = {"data", "ucl", "lcl", "cl"}
    /\ DOMAIN secondChart = {"data", "ucl", "lcl", "cl"}

\* C7: an X-bar-R computation whose subgroup size lies outside [2,10] does not
\* silently use the n = 2 row of the constants table: the condition is
\* surfaced in the result, or other constants (a clamp, an extrapolation) are
\* used.
C7_OutOfRangeNotSilent ==
    (chartType = "xbar-r" /\ hasCharts /\ meanRange > 0
        /\ sampleSizeOf(processedData) \notin 2..10) =>
        ~(usesRowTwo /\ resultIsUnflagged)

\* C8 as stated: for X-bar-R a supplied subgroup size below 2 is replaced by 5
\* for grouping and for the constants lookup.
C8_SmallSizeBecomesFive ==
    (chartType = "xbar-r" /\ IsSome(subgroupSize) /\ Val(subgroupSize) < 2) =>
        /\ groupSize = Some(5)
        /\ \A j \in 1..Len(processedData) :
               /\ processedData[j].sampleSize = 5
               /\ Len(processedData[j].subgroup) = 5
        /\ hasCharts => chartStats.sigma = Div(meanRange, STAT_CONSTANTS[5].d2)

\* C8 amended: for X-bar-R a supplied subgroup size below 2 (1, 0 or negative)
\* is raised to 2: subgroups hold 2 readings and the n = 2 row of the constants
\* table is used.
C8_SmallSizeBecomesTwo ==
    (chartType = "xbar-r" /\ IsSome(subgroupSize) /\ Val(subgroupSize) < 2) =>
        /\ Len(processedData) = Len(allValues) \div 2
        /\ \A j \in 1..Len(processedData) :
               /\ processedData[j].sampleSize = 2
               /\ processedData[j].subgroup = Window(j, 2)
        /\ hasCharts =>
               /\ sampleSizeOf(processedData) = 2
               /\ usesRowTwo

\* C8 witness: X-bar-R with a supplied size of 0 on data with varying subgroups
C8_Witness ==
    /\ chartType = "xbar-r" /\ subgroupSize = Some(0)
    /\ hasCharts /\ meanRange > 0
    /\ processedData[1].sampleSize = 2

\* upper >= centerLine >= lower for one chart with scalar limits
limitsOrdered(chart) == chart.ucl >= chart.cl /\ chart.cl >= chart.lcl

\* C9: for every chart with scalar limits (Individuals, MR, X-bar, R, upper and
\* lower CUSUM), whenever the baseline sigma is > 0 the limits satisfy
\* upper >= centerLine >= lower, for all series, phases and tunables h, k.
C9_LimitsOrdered ==
    (hasCharts /\ chartStats.sigma > 0 /\ chartType \in {"imr", "xbar-r", "cusum"}) =>
        limitsOrdered(mainChart) /\ limitsOrdered(secondChart)

\* C10: after any sequence of input changes the exposed result is the result of
\* a fresh computation on the current inputs alone: nothing of an earlier
\* computation is carried over.
C10_ResultIsFresh ==
    /\ processedData = processedDataOf(rawData, chartType, subgroupSize)
    /\ chartStats = chartStatsOf(processedDataOf(rawData, chartType, subgroupSize),
                                 chartType, phase, targetMean, targetSigma, lambda,
                                 ewmaL, cusumHParam, cusumKParam)

\* C10 witness: all allowed changes made, ending on an EWMA or CUSUM chart
\* computed with a tunable that differs from its initial value
C10_Witness ==
    /\ editsLeft = 0 /\ hasCharts
    /\ \/ chartType = "ewma" /\ lambda /= 100
       \/ chartType = "cusum" /\ cusumKParam /= 500

----------------------------------------------------------------------------
(* C11: the degenerate result.                                             *)

\* no character of the text is a digit, so no token of it is a number
noNumberInText == \A i \in 1..Len(rawData) : ~IsDigit(rawData[i])

\* X-bar-R with fewer readings than one subgroup of the size in force
tooFewForOneSubgroup ==
    /\ chartType = "xbar-r"
    /\ IsSome(subgroupSize)
    /\ Len(allValues) < Max2(2, Val(subgroupSize))

\* C11: a text without any valid number (empty, blank lines only, non-numeric
\* tokens only), and X-bar-R input shorter than one full subgroup, give the
\* empty series and the degenerate result: mean, sigma and limits 0, no chart
\* series, every capability index null
C11_DegenerateResult ==
    (noNumberInText \/ tooFewForOneSubgroup) =>
        /\ processedData = << >>
        /\ chartStats.mainChart = Null /\ chartStats.secondChart = Null
        /\ chartStats.mean = 0 /\ chartStats.sigma = 0
        /\ chartStats.ucl = 0 /\ chartStats.lcl = 0 /\ chartStats.cl = 0
        /\ capability.cp = Null /\ capability.cpk = Null
        /\ capability.cpu = Null /\ capability.cpl = Null

\* one reading under X-bar-R, with an upper specification limit entered
C11_Witness ==
    /\ tooFewForOneSubgroup /\ ~noNumberInText
    /\ processedData = << >>
    /\ usl /= Empty

----------------------------------------------------------------------------
(* C12: a single reading.                                                  *)

oneReading == Len(allValues) = 1

\* C12: with exactly one reading and phase 1, every chart type reports
\* sigma = 0, every limit and point emitted is a number (the limits collapse
\* onto the reading, the moving-range chart is empty with centre 0, the CUSUM
\* sums and H are 0), and every capability index is null
C12_SingleReading ==
    (oneReading /\ phase = "phase1") =>
        /\ chartStats.sigma = 0
        /\ capability.cp = Null /\ capability.cpk = Null
        /\ capability.cpu = Null /\ capability.cpl = Null
        /\ hasCharts =>
              LET x == allValues[1]
              IN  CASE chartType = "imr" ->
                         /\ mainChart.data = << [x |-> 1, y |-> x] >>
                         /\ mainChart.cl = x /\ mainChart.ucl = x /\ mainChart.lcl = x
                         /\ secondChart.data = << >>
                         /\ secondChart.cl = 0 /\ secondChart.ucl = 0
                         /\ secondChart.lcl = 0
                    [] chartType = "ewma" ->
                         /\ mainChart.data = << [x |-> 1, y |-> x] >>
                         /\ mainChart.cl = x
                         /\ mainChart.ucl = << x >> /\ mainChart.lcl = << x >>
                    [] chartType = "cusum" ->
                         /\ mainChart.data = << [x |-> 1, y |-> 0] >>
                         /\ secondChart.data = << [x |-> 1, y |-> 0] >>
                         /\ mainChart.ucl = 0 /\ secondChart.ucl = 0
                         /\ mainChart.target = x
                    [] chartType = "xbar-r" -> FALSE

\* one reading charted as EWMA, with an upper specification limit entered
C12_Witness ==
    /\ oneReading /\ phase = "phase1"
    /\ chartType = "ewma" /\ hasCharts
    /\ usl /= Empty

----------------------------------------------------------------------------
(* C13: the IMR charts in phase 1.                                         *)

\* MR_i = |x_i - x_(i-1)| for i in 2..N, as a sequence indexed from 1
mrOf(x) == [j \in 1..(Len(x) - 1) |-> Abs(x[j + 1] - x[j])]

\* C13: IMR in phase 1 on N >= 2 readings: the moving-range chart has the N-1
\* points (i, |x_i - x_(i-1)|), i = 2..N, centre meanMR, upper limit
\* 3.267 * meanMR and lower limit 0; sigma = meanMR / 1.128; the individuals
\* chart is centred on the mean of all readings with limits mean +/- 3 sigma
C13_ImrPhaseOne ==
    LET x == allValues
        N == Len(x)
    IN  (chartType = "imr" /\ phase = "phase1" /\ N >= 2) =>
            LET mr == mrOf(x)
                meanMR == RoundDiv(SeqSum(mr), N - 1)
                mean == RoundDiv(SeqSum(x), N)
                sigma == Div(meanMR, 1128)
            IN  /\ hasCharts
                /\ secondChart.data = [j \in 1..(N - 1) |-> [x |-> j + 1, y |-> mr[j]]]
                /\ secondChart.cl = meanMR
                /\ secondChart.ucl = Mul(3267, meanMR)
                /\ secondChart.lcl = 0
                /\ chartStats.sigma = sigma
                /\ chartStats.mean = mean
                /\ mainChart.cl = mean
                /\ mainChart.ucl = mean + 3 * sigma
                /\ mainChart.lcl = mean - 3 * sigma
                /\ mainChart.data = [i \in 1..N |-> [x |-> i, y |-> x[i]]]

\* five typed readings charted as IMR, their moving ranges not all 0
C13_Witness ==
    /\ chartType = "imr" /\ phase = "phase1"
    /\ Len(allValues) = 5
    /\ hasCharts /\ secondChart.cl > 0

----------------------------------------------------------------------------
(* C14: the X-bar-R charts.                                                *)

\* the observed range of each subgroup of the series
observedRanges ==
    [i \in 1..Len(processedData) |->
        SeqMax(processedData[i].subgroup) - SeqMin(processedData[i].subgroup)]

\* the number of readings in the subgroups of the series
actualSubgroupSize == Len(processedData[1].subgroup)

\* C14: X-bar-R with subgroups of n readings, n in 2..10: the constants are
\* those of row n of the table; meanRange is the mean of the observed subgroup
\* ranges in both phases; sigma = meanRange / d2(n); the X-bar chart is centred
\* on the mean of the subgroup means in phase 1 and on the supplied mean in
\* phase 2, with limits centre +/- A2(n) * meanRange; the R chart has centre
\* meanRange, upper limit D4(n) * meanRange, lower limit D3(n) * meanRange
C14_XbarRUsesRowN ==
    (chartType = "xbar-r" /\ hasCharts /\ actualSubgroupSize \in 2..10) =>
        LET row == STAT_CONSTANTS[actualSubgroupSize]
            mR == RoundDiv(SeqSum(observedRanges), Len(processedData))
            centre == IF baselineSupplied THEN Val(targetMean)
                      ELSE RoundDiv(SeqSum(values), Len(processedData))
        IN  /\ chartStats.sigma = Div(mR, row.d2)
            /\ chartStats.mean = centre
            /\ mainChart.cl = centre
            /\ mainChart.ucl = centre + Mul(row.A2, mR)
            /\ mainChart.lcl = centre - Mul(row.A2, mR)
            /\ secondChart.cl = mR
            /\ secondChart.ucl = Mul(row.D4, mR)
            /\ secondChart.lcl = Mul(row.D3, mR)
            /\ secondChart.data =
                   [i \in 1..Len(processedData) |-> [x |-> i, y |-> observedRanges[i]]]

\* subgroups of three readings whose ranges are not all 0
C14_Witness ==
    /\ chartType = "xbar-r" /\ hasCharts
    /\ actualSubgroupSize = 3
    /\ secondChart.cl > 0

----------------------------------------------------------------------------
(* C15: the EWMA limit term.                                               *)

\* term_i for i = 1..n: sqrt((lambda / (2 - lambda)) * (1 - (1 - lambda)^(2i)))
termsUpTo(n) ==
    [i \in 1..n |->
        Sqrt(Mul(Div(lambda, 2 * SCALE - lambda), SCALE - Pow(SCALE - lambda, 2 * i)))]

\* the asymptote sqrt(lambda / (2 - lambda))
termAsymptote == Sqrt(Div(lambda, 2 * SCALE - lambda))

\* C15: for lambda in (0,1) the EWMA limit term never decreases with i and
\* never exceeds its asymptote sqrt(lambda / (2 - lambda)); the upper and the
\* lower limits are sequences with one entry per point, mean + L*sigma*term_i
\* and mean - L*sigma*term_i, so they are symmetric about the mean and, when
\* L*sigma >= 0, the upper never decreases and the lower never increases
C15_EwmaLimitTerm ==
    (chartType = "ewma" /\ hasCharts /\ lambda > 0 /\ lambda < SCALE) =>
        LET N == Len(values)
            term == termsUpTo(N)
            width == Mul(ewmaL, chartStats.sigma)
            upper == mainChart.ucl
            lower == mainChart.lcl
        IN  /\ Len(mainChart.data) = N /\ Len(upper) = N /\ Len(lower) = N
            /\ \A i \in 1..N :
                   /\ term[i] <= termAsymptote
                   /\ upper[i] = chartStats.mean + Mul(width, term[i])
                   /\ upper[i] - chartStats.mean = chartStats.mean - lower[i]
            /\ \A i \in 1..(N - 1) :
                   /\ term[i] <= term[i + 1]
                   /\ width >= 0 => upper[i] <= upper[i + 1] /\ lower[i] >= lower[i + 1]

\* an EWMA chart with lambda = 0.5 whose limits widen from the first point to
\* the second
C15_Witness ==
    /\ chartType = "ewma" /\ hasCharts
    /\ lambda = 500
    /\ Len(values) >= 2
    /\ mainChart.ucl[1] < mainChart.ucl[2]
    /\ mainChart.lcl[1] > mainChart.lcl[2]

----------------------------------------------------------------------------
(* C16: the tokens parseLine keeps.                                        *)

\* the token is, in its entirety, a decimal literal: an optional sign, then
\* digits with an optional fraction, or a fraction alone
isWholeNumber(t) ==
    LET signed == t /= << >> /\ t[1] \in {"+", "-"}
        b == IF signed THEN 2 ELSE 1
        ni == DigitRun(t, b)
        dot == b + ni <= Len(t) /\ t[b + ni] = "."
        nf == IF dot THEN DigitRun(t, b + ni + 1) ELSE 0
    IN  /\ ni > 0 \/ nf > 0
        /\ (b - 1) + ni + (IF dot THEN 1 + nf ELSE 0) = Len(t)

\* the readings of a line when only whole-number tokens count
wholeTokenReadings(line) ==
    LET parts == SplitRuns(Trim(line))
    IN  Flat([i \in 1..Len(parts) |->
                 IF isWholeNumber(parts[i]) THEN parseFloat(parts[i]) ELSE << >>])

\* C16: the readings of the series are, line by line and in their order,
\* exactly the tokens (split on runs of comma, tab or white space) that are
\* in their entirety valid numbers; every other token contributes no reading
C16_OnlyWholeTokens ==
    chartType = "imr" =>
        LET lines == SplitLines(rawData)
        IN  values = Flat([i \in 1..Len(lines) |-> wholeTokenReadings(lines[i])])

----------------------------------------------------------------------------
(* C17: phase 2 with an incomplete baseline.                               *)

\* phase 2 is selected and a baseline cell is empty
baselineIncomplete == phase = "phase2" /\ (targetMean = Empty \/ targetSigma = Empty)

\* C17: in phase 2 with the supplied mean or the supplied sigma absent, the
\* result is, for every chart type, the one phase 1 computes from the same
\* series with both baseline cells empty: the value that was supplied is not
\* used, and the result carries no field beyond the charts, sigma and mean
C17_IncompleteBaselineIsPhaseOne ==
    baselineIncomplete =>
        /\ chartStats = chartStatsOf(processedData, chartType, "phase1", Empty, Empty,
                                     lambda, ewmaL, cusumHParam, cusumKParam)
        /\ hasCharts =>
              /\ DOMAIN chartStats = {"mainChart", "secondChart", "sigma", "mean"}
              /\ {"data", "ucl", "lcl", "cl"} \subseteq DOMAIN mainChart

\* phase 2 on a charted series with a supplied mean and no supplied sigma
C17_Witness ==
    /\ baselineIncomplete /\ targetMean /= Empty
    /\ hasCharts
    /\ chartStats.mean /= Val(targetMean)

============================================================================
